---- MODULE Spec2Model ----
(***************************************************************************)
(* Model of QC/run-spotiflow-qc.py: load_data (file discovery, sorting,    *)
(* count check, filename pairing check, reading) and main (load, metrics   *)
(* call with by_image=True, optional write of the metrics CSV).            *)
(*                                                                         *)
(* File names are sequences of character codes, so that sorted(), the     *)
(* Path.stem computation, str.split and str.startswith are computed the    *)
(* way Python computes them (code-point order, first occurrence, prefix).  *)
(* points_matching_dataset, read_coords_csv, mkdir and to_csv are library  *)
(* calls: each either returns or raises, chosen nondeterministically.      *)
(***************************************************************************)
EXTENDS Integers, Sequences, FiniteSets

VARIABLES
    gtDir,        \* names of the files in the --ground-truth directory
    predDir,      \* names of the files in the --predictions directory
    outfile,      \* args.outfile: "None" or "given"
    wanted,       \* the aggregation policy the caller wants; lines 66-93 define
                  \* no argument that carries it into the program
    pc,           \* position in main / load_data
    gt_files,     \* load_data: sorted(gt_path.glob("*.csv"))
    pred_files,   \* load_data: sorted(pred_path.glob("*.csv"))
    pairChecked,  \* the all(...) of lines 48-51 has been evaluated
    filesRead,    \* names handed to _read_coords_fn so far
    gts,          \* load_data's first result (each array named by its file)
    preds,        \* load_data's second result
    metrics,      \* <<>>, or <<the record of the points_matching_dataset call>>
    error,        \* "None", or the exception that ended the run
    dirCreated,   \* args.outfile.parent.mkdir(...) has run
    fileWritten   \* metrics_df.to_csv(args.outfile) has run

vars == <<gtDir, predDir, outfile, wanted, pc, gt_files, pred_files,
          pairChecked, filesRead, gts, preds, metrics, error,
          dirCreated, fileWritten>>

----------------------------------------------------------------------------
\* Bounds of the model.

\* Largest number of files in one directory.
MaxFiles == 2

----------------------------------------------------------------------------
\* Strings as sequences of character codes.

\* "_predict", the separator of pred_f.stem.split("_predict")
PredictSep == <<95, 112, 114, 101, 100, 105, 99, 116>>

\* ".csv", the suffix glob("*.csv") selects
CsvSuffix == <<46, 99, 115, 118>>

\* ".txt", a suffix glob("*.csv") does not select
TxtSuffix == <<46, 116, 120, 116>>

\* The stems the directories' files are built from: "a", "a1", "ab".
StemPool == { <<97>>, <<97, 49>>, <<97, 98>> }

\* The file names a directory may hold: <stem>.csv, <stem>_predict.csv, a.txt
NamePool ==
    { s \o CsvSuffix : s \in StemPool }
      \cup { s \o PredictSep \o CsvSuffix : s \in StemPool }
      \cup { <<97>> \o TxtSuffix }

Min(a, b) == IF a < b THEN a ELSE b

\* Python's str "<": lexicographic by code point, a proper prefix is smaller.
StrLess(s, t) ==
    \E k \in 0..Min(Len(s), Len(t)) :
        /\ \A i \in 1..k : s[i] = t[i]
        /\ \/ (k = Len(s) /\ k < Len(t))
           \/ (k < Len(s) /\ k < Len(t) /\ s[k + 1] < t[k + 1])

\* str.endswith
EndsWith(s, suf) ==
    /\ Len(suf) <= Len(s)
    /\ SubSeq(s, Len(s) - Len(suf) + 1, Len(s)) = suf

\* str.startswith
StartsWith(s, pre) ==
    /\ Len(pre) <= Len(s)
    /\ SubSeq(s, 1, Len(pre)) = pre

\* The start indices (1-based) at which sep occurs in s.
Occurrences(s, sep) ==
    { k \in 1..(Len(s) - Len(sep) + 1) : SubSeq(s, k, k + Len(sep) - 1) = sep }

\* s.split(sep)[0]: the part of s before the first occurrence of sep,
\* all of s when sep does not occur.
SplitFirst(s, sep) ==
    IF Occurrences(s, sep) = {}
    THEN s
    ELSE LET k == CHOOSE i \in Occurrences(s, sep) :
                      \A j \in Occurrences(s, sep) : i <= j
         IN  SubSeq(s, 1, k - 1)

\* name.rfind("."), 1-based; 0 when there is no dot.
LastDot(name) ==
    LET dots == { i \in 1..Len(name) : name[i] = 46 }
    IN  IF dots = {} THEN 0
        ELSE CHOOSE i \in dots : \A j \in dots : j <= i

\* pathlib's Path.stem: the name without its last suffix; a leading or a
\* trailing dot starts no suffix.
Stem(name) ==
    LET i == LastDot(name)
    IN  IF 1 < i /\ i < Len(name) THEN SubSeq(name, 1, i - 1) ELSE name

\* path.glob("*.csv"): the files of the directory whose name ends in .csv
GlobCsv(dir) == { n \in dir : EndsWith(n, CsvSuffix) }

\* sorted(...) of paths of one directory: ascending by name.
Sorted(S) ==
    [ i \in 1..Cardinality(S) |->
        CHOOSE x \in S : Cardinality({ y \in S : StrLess(y, x) }) = i - 1 ]

----------------------------------------------------------------------------
\* The conditions of load_data and main.

\* A faulty count test: only a surplus of ground-truth files is noticed.
CountMismatchBroken(g, p) == Len(g) > Len(p)

\* line 43: len(gt_files) != len(pred_files)
CountMismatch(g, p) == Len(g) # Len(p)

\* line 49: gt_f.stem.startswith(pred_f.stem.split("_predict")[0])
PairOk(gt_f, pred_f) ==
    StartsWith(Stem(gt_f), SplitFirst(Stem(pred_f), PredictSep))

\* lines 48-51: all(... for gt_f, pred_f in zip(gt_files, pred_files))
AllPairsOk(g, p) ==
    \A i \in 1..Min(Len(g), Len(p)) : PairOk(g[i], p[i])

\* A faulty call: by_image=False, pooled aggregation.
ByImagePooled == FALSE

\* line 102: by_image=True
ByImage == TRUE

\* A faulty test: the write is attempted whether or not --outfile was given.
OutfileGivenAlways(o) == TRUE

\* line 106: args.outfile is not None
OutfileGiven(o) == o # "None"

----------------------------------------------------------------------------
\* The run.

Dirs == { d \in SUBSET NamePool : Cardinality(d) <= MaxFiles }

Init ==
    /\ gtDir \in Dirs
    /\ predDir \in Dirs
    /\ outfile \in {"None", "given"}
    /\ wanted \in {"by_image", "pooled"}
    /\ pc = "glob"
    /\ gt_files = <<>>
    /\ pred_files = <<>>
    /\ pairChecked = FALSE
    /\ filesRead = {}
    /\ gts = <<>>
    /\ preds = <<>>
    /\ metrics = <<>>
    /\ error = "None"
    /\ dirCreated = FALSE
    /\ fileWritten = FALSE

\* lines 38-41
Glob ==
    /\ pc = "glob"
    /\ gt_files' = Sorted(GlobCsv(gtDir))
    /\ pred_files' = Sorted(GlobCsv(predDir))
    /\ pc' = "count_check"
    /\ UNCHANGED <<gtDir, predDir, outfile, wanted, pairChecked, filesRead,
                   gts, preds, metrics, error, dirCreated, fileWritten>>

\* lines 43-46
CountCheck ==
    /\ pc = "count_check"
    /\ IF CountMismatch(gt_files, pred_files)
       THEN pc' = "raised" /\ error' = "ValueError_count"
       ELSE pc' = "pair_check" /\ error' = error
    /\ UNCHANGED <<gtDir, predDir, outfile, wanted, gt_files, pred_files,
                   pairChecked, filesRead, gts, preds, metrics,
                   dirCreated, fileWritten>>

\* lines 48-54
PairCheck ==
    /\ pc = "pair_check"
    /\ pairChecked' = TRUE
    /\ IF ~AllPairsOk(gt_files, pred_files)
       THEN pc' = "raised" /\ error' = "ValueError_names"
       ELSE pc' = "read" /\ error' = error
    /\ UNCHANGED <<gtDir, predDir, outfile, wanted, gt_files, pred_files,
                   filesRead, gts, preds, metrics, dirCreated, fileWritten>>

\* lines 56-59 and 96: every file is read, in list order, and load_data
\* returns the two tuples to main
ReadCoords ==
    /\ pc = "read"
    /\ filesRead' = { gt_files[i] : i \in DOMAIN gt_files }
                      \cup { pred_files[i] : i \in DOMAIN pred_files }
    /\ gts' = gt_files
    /\ preds' = pred_files
    /\ pc' = "metrics"
    /\ UNCHANGED <<gtDir, predDir, outfile, wanted, gt_files, pred_files,
                   pairChecked, metrics, error, dirCreated, fileWritten>>

\* lines 57-58: _read_coords_fn raises on a file it cannot parse
ReadCoordsRaise ==
    /\ pc = "read"
    /\ Len(gt_files) + Len(pred_files) > 0
    /\ \E n \in 1..(Len(gt_files) + Len(pred_files)) :
          filesRead' =
              { gt_files[i] : i \in 1..Min(n, Len(gt_files)) }
                \cup { pred_files[i] : i \in 1..(n - Len(gt_files)) }
    /\ pc' = "raised"
    /\ error' = "read_error"
    /\ UNCHANGED <<gtDir, predDir, outfile, wanted, gt_files, pred_files,
                   pairChecked, gts, preds, metrics, dirCreated, fileWritten>>

\* lines 98-104: the call returns
Metrics ==
    /\ pc = "metrics"
    /\ metrics' = << [ n_samples |-> Len(gts), by_image |-> ByImage ] >>
    /\ pc' = "outfile_check"
    /\ UNCHANGED <<gtDir, predDir, outfile, wanted, gt_files, pred_files,
                   pairChecked, filesRead, gts, preds, error,
                   dirCreated, fileWritten>>

\* lines 98-103: the call raises
MetricsRaise ==
    /\ pc = "metrics"
    /\ pc' = "raised"
    /\ error' = "metrics_error"
    /\ UNCHANGED <<gtDir, predDir, outfile, wanted, gt_files, pred_files,
                   pairChecked, filesRead, gts, preds, metrics,
                   dirCreated, fileWritten>>

\* line 106
OutfileCheck ==
    /\ pc = "outfile_check"
    /\ pc' = IF OutfileGiven(outfile) THEN "mkdir" ELSE "done"
    /\ UNCHANGED <<gtDir, predDir, outfile, wanted, gt_files, pred_files,
                   pairChecked, filesRead, gts, preds, metrics, error,
                   dirCreated, fileWritten>>

\* line 107
Mkdir ==
    /\ pc = "mkdir"
    /\ dirCreated' = TRUE
    /\ pc' = "to_csv"
    /\ UNCHANGED <<gtDir, predDir, outfile, wanted, gt_files, pred_files,
                   pairChecked, filesRead, gts, preds, metrics, error,
                   fileWritten>>

\* line 107: mkdir raises (no permission, a file in the way)
MkdirRaise ==
    /\ pc = "mkdir"
    /\ pc' = "raised"
    /\ error' = "mkdir_error"
    /\ UNCHANGED <<gtDir, predDir, outfile, wanted, gt_files, pred_files,
                   pairChecked, filesRead, gts, preds, metrics,
                   dirCreated, fileWritten>>

\* line 108
ToCsv ==
    /\ pc = "to_csv"
    /\ fileWritten' = TRUE
    /\ pc' = "done"
    /\ UNCHANGED <<gtDir, predDir, outfile, wanted, gt_files, pred_files,
                   pairChecked, filesRead, gts, preds, metrics, error,
                   dirCreated>>

Next ==
    \/ Glob
    \/ CountCheck
    \/ PairCheck
    \/ ReadCoords
    \/ ReadCoordsRaise
    \/ Metrics
    \/ MetricsRaise
    \/ OutfileCheck
    \/ Mkdir
    \/ MkdirRaise
    \/ ToCsv

Spec == Init /\ [][Next]_vars

----------------------------------------------------------------------------
\* Vocabulary of the properties.

\* load_data has returned its two tuples to main (line 96 is done).
Loaded ==
    \/ pc \in {"metrics", "outfile_check", "mkdir", "to_csv", "done"}
    \/ (pc = "raised" /\ error \in {"metrics_error", "mkdir_error"})

\* The pairing check of lines 48-54 was evaluated and did not raise.
Accepted == pairChecked /\ error # "ValueError_names"

\* A stem with a trailing "_predict" removed, unchanged when it has none.
StripPredictSuffix(s) ==
    IF EndsWith(s, PredictSep)
    THEN SubSeq(s, 1, Len(s) - Len(PredictSep))
    ELSE s

\* The name of the prediction file of ground-truth file n.
PredictionOf(n) == Stem(n) \o PredictSep \o CsvSuffix

\* The prediction CSVs are exactly the ground-truth CSVs renamed by
\* appending _predict to the stem.
CorrectlyNamed ==
    /\ GlobCsv(gtDir) # {}
    /\ GlobCsv(predDir) = { PredictionOf(n) : n \in GlobCsv(gtDir) }

----------------------------------------------------------------------------
\* C5: when the two directories hold different numbers of CSV files,
\* load_data raises the count ValueError, and it does so before the pairing
\* check is evaluated and before any file is read: nothing is returned and
\* no metrics are computed.
C5_CountMismatchAborts ==
    /\ pc \in {"glob", "count_check"} => (~pairChecked /\ filesRead = {})
    /\ ( /\ pc \notin {"glob", "count_check"}
         /\ Cardinality(GlobCsv(gtDir)) # Cardinality(GlobCsv(predDir)) )
       => /\ pc = "raised"
          /\ error = "ValueError_count"
          /\ ~pairChecked
          /\ filesRead = {}
          /\ gts = <<>>
          /\ preds = <<>>
          /\ metrics = <<>>

\* C5 witness: the count error was raised for two non-empty directories.
C5_Witness ==
    /\ error = "ValueError_count"
    /\ GlobCsv(gtDir) # {}
    /\ GlobCsv(predDir) # {}

\* C6 as stated: a dataset is accepted only if, at every index, the
\* prediction stem with its _predict suffix stripped equals the
\* ground-truth stem.
C6_AcceptedOnlyIfStemsEqual ==
    Accepted =>
        \A i \in DOMAIN gt_files :
            StripPredictSuffix(Stem(pred_files[i])) = Stem(gt_files[i])

C9_OutputOnlyAfterMetrics ==
    /\ (dirCreated \/ fileWritten)
         => /\ Loaded
            /\ metrics # <<>>
            /\ metrics[1].n_samples = Cardinality(GlobCsv(gtDir))
            /\ outfile # "None"
    /\ fileWritten => dirCreated
    /\ error \in {"ValueError_count", "ValueError_names", "read_error",
                  "metrics_error"}
         => (~dirCreated /\ ~fileWritten)

\* C9 witness: the CSV was written for a run over two samples.
C9_Witness ==
    /\ fileWritten
    /\ Len(gts) = 2

\* C10 as stated: a dataset whose prediction files are the ground-truth
\* files renamed with _predict passes both checks of load_data, and the
\* returned tuples pair every ground truth with its own prediction.
C10_CorrectlyNamedIsLoadedAligned ==
    CorrectlyNamed =>
        /\ error \notin {"ValueError_count", "ValueError_names"}
        /\ Loaded => \A i \in DOMAIN gts : preds[i] = PredictionOf(gts[i])

====
